---------------------------- MODULE Spec2Model ----------------------------
(***************************************************************************)
(* A model of tuikit's terminal I/O core:                                  *)
(*   - src/src/input.rs   KeyBoard: the pending-character queue, the       *)
(*     refill cycle (get_chars), the escape-sequence decoder and the       *)
(*     interrupt pipe;                                                      *)
(*   - src/src/output.rs  Output: the write buffer and the device.         *)
(* Characters are code points (Rust char), device data are bytes.        *)
(***************************************************************************)
EXTENDS Integers, Sequences, FiniteSets, TLC

VARIABLES
    \* ---- KeyBoard (src/src/input.rs:32-37) and its environment
    buf,        \* KeyBoard.buf: VecDeque<char>, the pending queue
    file,       \* bytes readable from the input device (KeyBoard.file)
    sig,        \* number of bytes waiting in the interrupt pipe (sig_rx)
    pc,         \* where the reader thread is: idle, char, wait, read, panicked
    st,         \* the decoder's position inside next_key_timeout and its locals
    timeout,    \* the timeout argument of the running next_key_timeout call
    api,        \* the entry point called: next_key or next_key_timeout
    res,        \* the value the last call returned
    overflow_checks, \* whether the build panics on integer overflow
    \* ---- history of the run (not program state)
    scn,        \* the family of inputs the terminal sends in this run
    eaten,      \* characters removed from buf by the running/last call
    popped,     \* number of characters removed from buf since construction
    ends,       \* stream offsets (in characters) at which a sent sequence ends
    sent,       \* the byte sequences the terminal sent, in order
    returned,   \* values returned by the calls, no-data errors left out
    wake,       \* why the last readiness wait ended
    ncalls,     \* number of next_key* calls made
    nintr,      \* number of interrupt() calls made
    fresh,      \* number of interrupt() calls made during the wait in progress
    intrInCall, \* whether interrupt() was called during the call in progress
    eof,        \* whether the input device is at end-of-file
    spun,       \* bytes get_chars pushed after reads that returned no byte
    \* ---- Output (src/src/output.rs:31-37) and its device
    buffer,     \* Output.buffer: Vec<u8>
    origin,     \* for each byte of buffer, the operation that appended it
    stdout,     \* bytes the device received
    stdoutOrigin, \* for each byte of stdout, the operation that appended it
    terminfo,   \* Output.terminfo.strings: the capabilities the terminal has
    device,     \* how the output device behaves in this run
    names,      \* Output.terminfo.names: the names of the terminal type
    lastTitle,  \* the text the last set_title call was given
    flushes,    \* number of flush calls made on the device (stdout.flush())
    offered,    \* the bytes handed to the device's write, in order
    devFailed,  \* whether the device failed during the last flush()
    flushRes,   \* what the last flush() returned to its caller
    op          \* the last Output operation called

kbvars  == <<buf, file, sig, pc, st, timeout, api, res, overflow_checks, scn,
             eaten, popped, ends, sent, returned, wake, ncalls, nintr, fresh,
             intrInCall, eof, spun>>
outvars == <<buffer, origin, stdout, stdoutOrigin, terminfo, device, names, lastTitle,
             flushes, offered,
             devFailed, flushRes, op>>
vars    == <<kbvars, outvars>>

---------------------------------------------------------------------------
(* Bounds of the model *)
MaxArrive == 3     \* sequences the terminal sends in one run
MaxCalls  == 3     \* next_key* calls in one run
MaxIntr   == 1     \* interrupt() calls in one run
MaxBuffer == 4     \* bytes buffered in Output before a flush is forced
MaxStdout == 4     \* bytes the output device is offered in one run
MaxFlush  == 3     \* flushes of the output device in one run
MaxTitle  == 10    \* bytes buffered in Output in a run that sets titles
MaxSpin   == 2     \* iterations of the read loop followed at end-of-file

---------------------------------------------------------------------------
(* Characters *)
Printable ==
    <<" ", "!", "dquote", "#", "$", "%", "&", "'", "(", ")", "*", "+", ",", "-", ".", "/",
      "0", "1", "2", "3", "4", "5", "6", "7", "8", "9", ":", ";", "<", "=", ">", "?",
      "@", "A", "B", "C", "D", "E", "F", "G", "H", "I", "J", "K", "L", "M", "N", "O",
      "P", "Q", "R", "S", "T", "U", "V", "W", "X", "Y", "Z", "[", "backslash", "]", "^", "_",
      "backtick", "a", "b", "c", "d", "e", "f", "g", "h", "i", "j", "k", "l", "m", "n", "o",
      "p", "q", "r", "s", "t", "u", "v", "w", "x", "y", "z", "{", "|", "}", "~">>

OrdTable == [s \in {Printable[i] : i \in 1..95} |->
                31 + (CHOOSE i \in 1..95 : Printable[i] = s)]

\* the code point of a printable ASCII character written as a one-letter string
Ord(s) == OrdTable[s]

\* a sequence of code points from a sequence of one-letter strings
Str(ss) == [i \in 1..Len(ss) |-> Ord(ss[i])]

ESC == 27
DEL == 127
BEL == 7

Range(s) == {s[i] : i \in 1..Len(s)}
Contains(s, c) == \E i \in 1..Len(s) : s[i] = c
Last(s) == s[Len(s)]
IsDigit(c) == c >= 48 /\ c <= 57

---------------------------------------------------------------------------
(* UTF-8 (String::from_utf8, input.rs:96): the characters of a byte string,
   or <<-1>> when the bytes are not UTF-8. *)
IsCont(b) == b >= 128 /\ b <= 191

\* the length of the UTF-8 sequence that starts bs, or 0 when it is ill-formed
utf8_len(bs) ==
    LET b1 == bs[1]
        n  == Len(bs)
    IN  IF b1 < 128 THEN 1
        ELSE IF b1 >= 194 /\ b1 <= 223 /\ n >= 2 /\ IsCont(bs[2]) THEN 2
        ELSE IF b1 >= 224 /\ b1 <= 239 /\ n >= 3 /\ IsCont(bs[2]) /\ IsCont(bs[3])
                /\ (b1 = 224 => bs[2] >= 160) /\ (b1 = 237 => bs[2] <= 159) THEN 3
        ELSE IF b1 >= 240 /\ b1 <= 244 /\ n >= 4 /\ IsCont(bs[2]) /\ IsCont(bs[3])
                /\ IsCont(bs[4])
                /\ (b1 = 240 => bs[2] >= 144) /\ (b1 = 244 => bs[2] <= 143) THEN 4
        ELSE 0

\* the code point of the well-formed UTF-8 sequence of length k that starts bs
utf8_char(bs, k) ==
    CASE k = 1 -> bs[1]
      [] k = 2 -> (bs[1] - 192) * 64 + (bs[2] - 128)
      [] k = 3 -> (bs[1] - 224) * 4096 + (bs[2] - 128) * 64 + (bs[3] - 128)
      [] k = 4 -> (bs[1] - 240) * 262144 + (bs[2] - 128) * 4096
                  + (bs[3] - 128) * 64 + (bs[4] - 128)

RECURSIVE from_utf8(_)
from_utf8(bs) ==
    IF bs = <<>> THEN <<>>
    ELSE LET k == utf8_len(bs)
         IN  IF k = 0 THEN <<-1>>
             ELSE LET rest == from_utf8(SubSeq(bs, k + 1, Len(bs)))
                  IN  IF rest = <<-1>> THEN <<-1>> ELSE <<utf8_char(bs, k)>> \o rest

---------------------------------------------------------------------------
(* Numbers in decimal *)

\* str::parse for an unsigned type whose largest value is max: the value, or
\* -1 for Err (empty, a lone sign, a non-digit, or a value above max)
RECURSIVE parse_digits(_, _, _)
parse_digits(s, acc, max) ==
    IF s = <<>> THEN acc
    ELSE IF ~IsDigit(s[1]) THEN -1
    ELSE LET v == acc * 10 + (s[1] - 48)
         IN  IF v > max THEN -1 ELSE parse_digits(Tail(s), v, max)

parse_unsigned(s, max) ==
    IF s = <<>> THEN -1
    ELSE IF s[1] = Ord("+")
         THEN (IF Len(s) = 1 THEN -1 ELSE parse_digits(Tail(s), 0, max))
         ELSE parse_digits(s, 0, max)

U16_MAX == 65535
U8_MAX == 255
parse_u16(s) == parse_unsigned(s, U16_MAX)
parse_u8(s) == parse_unsigned(s, U8_MAX)

\* str::split: the fields of s between separators, at least one
RECURSIVE split(_, _)
split(s, sep) ==
    IF ~Contains(s, sep) THEN <<s>>
    ELSE LET i == CHOOSE k \in 1..Len(s) :
                      s[k] = sep /\ \A j \in 1..(k - 1) : s[j] # sep
         IN  <<SubSeq(s, 1, i - 1)>> \o split(SubSeq(s, i + 1, Len(s)), sep)


---------------------------------------------------------------------------
(* Values a next_key* call returns: Ok(Key), Err(message) or a panic.
   A message is its format string and the values formatted into it. *)
Key(kind, btn, a, b) ==
    [tag |-> "Key", kind |-> kind, btn |-> btn, a |-> a, b |-> b, args |-> <<>>]
Err(fmt, args) ==
    [tag |-> "Err", kind |-> fmt, btn |-> "", a |-> 0, b |-> 0, args |-> args]
Panic(what) ==
    [tag |-> "Panic", kind |-> what, btn |-> "", a |-> 0, b |-> 0, args |-> <<>>]
NoRes == [tag |-> "None", kind |-> "", btn |-> "", a |-> 0, b |-> 0, args |-> <<>>]

Named(kind) == Key(kind, "", 0, 0)
Ctrl(c) == Key("Ctrl", "", Ord(c), 0)
CtrlAlt(c) == Key("CtrlAlt", "", Ord(c), 0)
Char(ch) == Key("Char", "", ch, 0)
Alt(ch) == Key("Alt", "", ch, 0)
F(n) == Key("F", "", n, 0)
CursorPos(row, col) == Key("CursorPos", "", row, col)
MousePress(btn, cx, cy) == Key("MousePress", btn, cx, cy)
MouseRelease(cx, cy) == Key("MouseRelease", "", cx, cy)
MouseHold(cx, cy) == Key("MouseHold", "", cx, cy)

\* the error of next_char_timeout on an empty queue
NoData == Err("no more bytes in the buffer", <<>>)

KEY_WAIT == 10

\* The decoder's position and locals. at names the function that is about to
\* call next_char; alt is set while escape_csi runs on behalf of parse_alt.
St0 == [at |-> "next_key_timeout", alt |-> FALSE, seq2 |-> 0, seq4 |-> 0,
        str_buf |-> <<>>, cb |-> 0, cx |-> 0]

\* alt_remap with the two page keys left out of the match
alt_remap_arrows(r) ==
    IF r.tag = "Key" /\ r.kind \in {"Up", "Down", "Left", "Right"}
    THEN Named("Alt" \o r.kind)
    ELSE Err("unsupported esc sequence: ESC ESC [ ...", <<>>)

\* the match of parse_alt on the result of its escape_csi call
alt_remap(r) ==
    IF r.tag = "Key" /\ r.kind \in {"Up", "Down", "Left", "Right", "PageUp", "PageDown"}
    THEN Named("Alt" \o r.kind)
    ELSE Err("unsupported esc sequence: ESC ESC [ ...", <<>>)

\* the decoder goes on, and will call next_char in function at
Cont(s, at, q) == [done |-> FALSE, res |-> NoRes, st |-> [s EXCEPT !.at = at], q |-> q]
\* the decoder returns r (through parse_alt's match when it called escape_csi)
Ret(s, r, q) ==
    [done |-> TRUE, st |-> s, q |-> q,
     res |-> IF s.alt /\ r.tag # "Panic" THEN alt_remap(r) ELSE r]

FirstIndex(s, c) == CHOOSE k \in 1..Len(s) : s[k] = c /\ \A j \in 1..(k - 1) : s[j] # c
After(s, k) == SubSeq(s, k + 1, Len(s))

\* the match arms for control characters shared in shape by next_key_timeout
\* and parse_alt: index ch + 1 for ch in 0x00..0x1A
CtrlLetters ==
    <<" ", "a", "b", "c", "d", "e", "f", "g", "h", "i", "j", "k", "l", "m",
      "n", "o", "p", "q", "r", "s", "t", "u", "v", "w", "x", "y", "z">>

\* plain_key with the Tab arm lost: 0x09 falls to the Ctrl arm
plain_key_no_tab(ch) ==
    CASE ch = 13 -> Named("Enter")
      [] ch >= 0 /\ ch <= 26 /\ ch # 13 -> Ctrl(CtrlLetters[ch + 1])
      [] ch = DEL -> Named("Backspace")
      [] OTHER -> Char(ch)

\* next_key_timeout's match on a character other than ESC
plain_key(ch) ==
    CASE ch = 9 -> Named("Tab")
      [] ch = 13 -> Named("Enter")
      [] ch >= 0 /\ ch <= 26 /\ ch # 9 /\ ch # 13 -> Ctrl(CtrlLetters[ch + 1])
      [] ch = DEL -> Named("Backspace")
      [] OTHER -> Char(ch)

\* parse_alt's table with the arm for DEL left out
alt_key_no_backspace(ch) ==
    CASE ch = 9 -> Named("AltTab")
      [] ch = 13 -> Named("AltEnter")
      [] ch = 25 -> Named("AltBackTab")
      [] ch >= 0 /\ ch <= 26 /\ ch # 9 /\ ch # 13 /\ ch # 25 -> CtrlAlt(CtrlLetters[ch + 1])
      [] OTHER -> Alt(ch)

\* parse_alt's match on a character other than ESC
alt_key(ch) ==
    CASE ch = 9 -> Named("AltTab")
      [] ch = 13 -> Named("AltEnter")
      [] ch = 25 -> Named("AltBackTab")
      [] ch >= 0 /\ ch <= 26 /\ ch # 9 /\ ch # 13 /\ ch # 25 -> CtrlAlt(CtrlLetters[ch + 1])
      [] ch = DEL -> Named("AltBackspace")
      [] OTHER -> Alt(ch)

\* sub_one_u16 with the conversion to 0-based forgotten
sub_one_u16_none(n, checks) == n

\* u16 subtraction n - 1: -1 stands for the overflow panic of a build with
\* overflow checks, which a build without them replaces by wrapping
sub_one_u16(n, checks) == IF n >= 1 THEN n - 1 ELSE IF checks THEN -1 ELSE U16_MAX

\* parse_cursor_report: the result and the queue it leaves
parse_cursor_report(q, checks) ==
    IF Contains(q, Ord(";")) /\ Contains(q, Ord("R"))
    THEN LET i   == FirstIndex(q, Ord(";"))
             row == SubSeq(q, 1, i - 1)
             q1  == After(q, i)
         IN  IF ~Contains(q1, Ord("R"))
             THEN [res |-> Panic("unwrap on None"), q |-> <<>>]
             ELSE LET j   == FirstIndex(q1, Ord("R"))
                      col == SubSeq(q1, 1, j - 1)
                      q2  == After(q1, j)
                      row_num == parse_u16(row)
                      col_num == parse_u16(col)
                  IN  IF row_num = -1 \/ col_num = -1
                      THEN [res |-> Err("ParseIntError", <<>>), q |-> q2]
                      ELSE IF sub_one_u16(row_num, checks) = -1
                              \/ sub_one_u16(col_num, checks) = -1
                      THEN [res |-> Panic("attempt to subtract with overflow"), q |-> q2]
                      ELSE [res |-> CursorPos(sub_one_u16(row_num, checks),
                                              sub_one_u16(col_num, checks)),
                            q |-> q2]
    ELSE [res |-> Err("buffer did not contain cursor position response", <<>>), q |-> q]

\* escape_csi up to its first next_char: the cursor-position attempt
escape_csi(s, q, checks) ==
    LET cursor_pos == parse_cursor_report(q, checks)
    IN  IF cursor_pos.res.tag = "Err"
        THEN Cont(s, "escape_csi", cursor_pos.q)
        ELSE Ret(s, cursor_pos.res, cursor_pos.q)

\* parse_alt(ch)
parse_alt(s, ch, q) ==
    IF ch = ESC THEN Cont(s, "parse_alt", q) ELSE Ret(s, alt_key(ch), q)

\* parse_alt after its next_char_timeout(KEY_WAIT); r = -1 is that call's Err
parse_alt_esc(s, r, q, checks) ==
    CASE r = Ord("[") -> escape_csi([s EXCEPT !.alt = TRUE], q, checks)
      [] r = -1 -> Ret(s, Named("ESC"), q)
      [] OTHER -> Ret(s, Err("unsupported esc sequence: ESC ESC {:?}", <<r>>), q)

\* escape_sequence after its next_char_timeout(KEY_WAIT)
escape_sequence(s, r, q, checks) ==
    LET seq1 == IF r = -1 THEN ESC ELSE r
    IN  CASE seq1 = Ord("[") -> escape_csi(s, q, checks)
          [] seq1 = Ord("O") -> Cont(s, "escape_o", q)
          [] OTHER -> parse_alt(s, seq1, q)

\* next_key_timeout that asks again when next_char_timeout fails
next_key_timeout_retry(s, r, q) ==
    CASE r = -1 -> Cont(s, "next_key_timeout", q)
      [] r = ESC -> Cont(s, "escape_sequence", q)
      [] OTHER -> Ret(s, plain_key(r), q)

\* next_key_timeout after its next_char_timeout(timeout)
next_key_timeout(s, r, q) ==
    CASE r = -1 -> Ret(s, NoData, q)
      [] r = ESC -> Cont(s, "escape_sequence", q)
      [] OTHER -> Ret(s, plain_key(r), q)

\* escape_o after its next_char
escape_o(s, r, q) ==
    CASE r = -1 -> Ret(s, NoData, q)
      [] r = Ord("A") -> Ret(s, Named("Up"), q)
      [] r = Ord("B") -> Ret(s, Named("Down"), q)
      [] r = Ord("C") -> Ret(s, Named("Right"), q)
      [] r = Ord("D") -> Ret(s, Named("Left"), q)
      [] r = Ord("F") -> Ret(s, Named("End"), q)
      [] r = Ord("H") -> Ret(s, Named("Home"), q)
      [] r = Ord("P") -> Ret(s, F(1), q)
      [] r = Ord("Q") -> Ret(s, F(2), q)
      [] r = Ord("R") -> Ret(s, F(3), q)
      [] r = Ord("S") -> Ret(s, F(4), q)
      [] r = Ord("a") -> Ret(s, Named("CtrlUp"), q)
      [] r = Ord("b") -> Ret(s, Named("CtrlDown"), q)
      [] r = Ord("c") -> Ret(s, Named("CtrlRight"), q)
      [] r = Ord("d") -> Ret(s, Named("CtrlLeft"), q)
      [] OTHER -> Ret(s, Err("unsupported esc sequence: ESC O {:?}", <<r>>), q)

\* the three ;-separated u16 fields of a mouse report (nums.next().unwrap()
\* .parse::<u16>().unwrap(), three times): <<cb, cx, cy>>, or <<>> for a panic
mouse_fields(str_buf) ==
    LET nums == split(str_buf, Ord(";"))
    IN  IF Len(nums) < 3 THEN <<>>
        ELSE IF parse_u16(nums[1]) = -1 \/ parse_u16(nums[2]) = -1 \/ parse_u16(nums[3]) = -1
             THEN <<>>
        ELSE <<parse_u16(nums[1]), parse_u16(nums[2]), parse_u16(nums[3])>>

\* escape_csi, the X10 report once its three characters are read
x10_mouse(cb, cx, cy) ==
    CASE cb % 4 = 0 -> IF (cb \div 64) % 2 = 1
                       THEN MousePress("WheelUp", cx, cy)
                       ELSE MousePress("Left", cx, cy)
      [] cb % 4 = 1 -> IF (cb \div 64) % 2 = 1
                       THEN MousePress("WheelDown", cx, cy)
                       ELSE MousePress("Middle", cx, cy)
      [] cb % 4 = 2 -> MousePress("Right", cx, cy)
      [] cb % 4 = 3 -> MouseRelease(cx, cy)

\* escape_csi, the xterm SGR report once its terminator c is read
sgr_mouse(str_buf, c) ==
    LET n  == mouse_fields(str_buf)
        cb == n[1]
        cx == n[2]
        cy == n[3]
    IN  IF n = <<>> THEN Panic("unwrap on None or Err")
        ELSE CASE cb \in {0, 1, 2, 64, 65} ->
                    LET button == CASE cb = 0 -> "Left"
                                    [] cb = 1 -> "Middle"
                                    [] cb = 2 -> "Right"
                                    [] cb = 64 -> "WheelUp"
                                    [] cb = 65 -> "WheelDown"
                    IN  IF c = Ord("M") THEN MousePress(button, cx, cy)
                        ELSE MouseRelease(cx, cy)
               [] cb = 32 -> MouseHold(cx, cy)
               [] OTHER -> Err("unknown sequence: ESC [ < {} {}", str_buf \o <<c>>)

\* escape_csi after seq2 = self.next_char()?
escape_csi_seq2(s, r, q) ==
    CASE r = -1 -> Ret(s, NoData, q)
      [] r = Ord("0") \/ r = Ord("9") ->
            Ret(s, Err("unsupported esc sequence: ESC [ {:?}", <<r>>), q)
      [] r >= Ord("1") /\ r <= Ord("8") ->
            Cont([s EXCEPT !.seq2 = r], "extended_escape", q)
      [] r = Ord("[") -> Cont(s, "escape_csi_linux", q)
      [] r = Ord("A") -> Ret(s, Named("Up"), q)
      [] r = Ord("B") -> Ret(s, Named("Down"), q)
      [] r = Ord("C") -> Ret(s, Named("Right"), q)
      [] r = Ord("D") -> Ret(s, Named("Left"), q)
      [] r = Ord("H") -> Ret(s, Named("Home"), q)
      [] r = Ord("F") -> Ret(s, Named("End"), q)
      [] r = Ord("Z") -> Ret(s, Named("BackTab"), q)
      [] r = Ord("M") -> Cont(s, "escape_csi_x10_cb", q)
      [] r = Ord("<") ->
            IF ~Contains(q, Ord("m")) /\ ~Contains(q, Ord("M"))
            THEN Ret(s, Err("unknown esc sequence ESC [ < (not ending with m/M)", <<>>), q)
            ELSE Cont([s EXCEPT !.str_buf = <<>>], "escape_csi_sgr", q)
      [] OTHER -> Ret(s, Err("unsupported esc sequence: ESC [ {:?}", <<r>>), q)

\* escape_csi, Linux console ESC [ [ _, after seq3 = self.next_char()?
escape_csi_linux(s, r, q) ==
    CASE r = -1 -> Ret(s, NoData, q)
      [] r = Ord("A") -> Ret(s, F(1), q)
      [] r = Ord("B") -> Ret(s, F(2), q)
      [] r = Ord("C") -> Ret(s, F(3), q)
      [] r = Ord("D") -> Ret(s, F(4), q)
      [] r = Ord("E") -> Ret(s, F(5), q)
      [] OTHER -> Ret(s, Err("unsupported esc sequence: ESC [ [ {:?}", <<r>>), q)

\* u8::saturating_sub(32) of (ch as u8)
x10_coord(ch) == IF (ch % 256) >= 32 THEN (ch % 256) - 32 ELSE 0

\* escape_csi, the X10 arm: one step for each of its three next_char calls
escape_csi_x10(s, r, q) ==
    CASE r = -1 -> Ret(s, NoData, q)
      [] s.at = "escape_csi_x10_cb" -> Cont([s EXCEPT !.cb = r % 256], "escape_csi_x10_cx", q)
      [] s.at = "escape_csi_x10_cx" -> Cont([s EXCEPT !.cx = x10_coord(r)], "escape_csi_x10_cy", q)
      [] OTHER -> Ret(s, x10_mouse(s.cb, s.cx, x10_coord(r)), q)

\* escape_csi, the SGR arm: the loop that reads up to the terminator
escape_csi_sgr(s, r, q) ==
    CASE r = -1 -> Ret(s, NoData, q)
      [] r = Ord("m") \/ r = Ord("M") -> Ret(s, sgr_mouse(s.str_buf, r), q)
      [] OTHER -> Cont([s EXCEPT !.str_buf = Append(@, r)], "escape_csi_sgr", q)

\* extended_escape, the rxvt report ESC [ Cb ; Cx ; Cy M
rxvt_mouse(str_buf) ==
    LET n  == mouse_fields(str_buf)
        cb == n[1]
        cx == n[2]
        cy == n[3]
    IN  IF n = <<>> THEN Panic("unwrap on None or Err")
        ELSE CASE cb = 32 -> MousePress("Left", cx, cy)
               [] cb = 33 -> MousePress("Middle", cx, cy)
               [] cb = 34 -> MousePress("Right", cx, cy)
               [] cb = 35 -> MouseRelease(cx, cy)
               [] cb = 64 -> MouseHold(cx, cy)
               [] cb = 96 \/ cb = 97 -> MousePress("WheelUp", cx, cy)
               [] OTHER -> Err("unsupported esc sequence: ESC [ {} M", str_buf)

\* extended_escape, the function key ESC [ num ~
function_key(str_buf) ==
    LET num == parse_u8(str_buf)
    IN  CASE num = -1 -> Panic("unwrap on Err")
          [] num >= 11 /\ num <= 15 -> F(num - 10)
          [] num >= 17 /\ num <= 21 -> F(num - 11)
          [] num >= 23 /\ num <= 24 -> F(num - 12)
          [] OTHER -> Err("unsupported esc sequence: ESC [ {} ~", str_buf)

\* extended_escape after seq3 = self.next_char()?
extended_escape(s, r, q) ==
    LET seq2 == s.seq2
    IN  CASE r = -1 -> Ret(s, NoData, q)
          [] r = Ord("~") ->
                Ret(s, CASE seq2 = Ord("1") \/ seq2 = Ord("7") -> Named("Home")
                         [] seq2 = Ord("2") -> Named("Insert")
                         [] seq2 = Ord("3") -> Named("Delete")
                         [] seq2 = Ord("4") \/ seq2 = Ord("8") -> Named("End")
                         [] seq2 = Ord("5") -> Named("PageUp")
                         [] seq2 = Ord("6") -> Named("PageDown")
                         [] OTHER -> Err("unsupported esc sequence: ESC [ {} ~", <<seq2>>),
                    q)
          [] IsDigit(r) -> Cont([s EXCEPT !.str_buf = <<seq2, r>>], "extended_escape_num", q)
          [] r = Ord(";") -> Cont(s, "extended_escape_seq4", q)
          [] seq2 = Ord("5") /\ r = Ord("A") -> Ret(s, Named("CtrlUp"), q)
          [] seq2 = Ord("5") /\ r = Ord("B") -> Ret(s, Named("CtrlDown"), q)
          [] seq2 = Ord("5") /\ r = Ord("C") -> Ret(s, Named("CtrlRight"), q)
          [] seq2 = Ord("5") /\ r = Ord("D") -> Ret(s, Named("CtrlLeft"), q)
          [] OTHER -> Ret(s, Err("unsupported esc sequence: ESC [ {} {:?}", <<seq2, r>>), q)

\* extended_escape, the loop that reads a number up to M or ~
extended_escape_num(s, r, q) ==
    CASE r = -1 -> Ret(s, NoData, q)
      [] r = Ord("M") -> Ret(s, rxvt_mouse(s.str_buf), q)
      [] r = Ord("~") -> Ret(s, function_key(s.str_buf), q)
      [] OTHER -> Cont([s EXCEPT !.str_buf = Append(@, r)], "extended_escape_num", q)

\* extended_escape after ESC [ seq2 ; : seq4 = self.next_char()?
extended_escape_seq4(s, r, q) ==
    CASE r = -1 -> Ret(s, NoData, q)
      [] IsDigit(r) -> Cont([s EXCEPT !.seq4 = r], "extended_escape_seq5", q)
      [] OTHER -> Ret(s, Err("unsupported esc sequence: ESC [ {} ; {:?}", <<s.seq2, r>>), q)

\* the table of ESC [ 1 ; seq4 seq5
modified_key(seq4, seq5) ==
    LET dir == CASE seq5 = Ord("A") -> "Up"
                 [] seq5 = Ord("B") -> "Down"
                 [] seq5 = Ord("C") -> "Right"
                 [] seq5 = Ord("D") -> "Left"
                 [] OTHER -> ""
    IN  CASE seq4 = Ord("5") /\ dir # "" -> Named("Ctrl" \o dir)
          [] seq4 = Ord("4") /\ dir # "" -> Named("AltShift" \o dir)
          [] seq4 = Ord("3") /\ seq5 = Ord("H") -> Named("AltHome")
          [] seq4 = Ord("3") /\ seq5 = Ord("F") -> Named("AltEnd")
          [] seq4 = Ord("2") /\ dir # "" -> Named("Shift" \o dir)
          [] OTHER -> Err("unsupported esc sequence: ESC [ 1 ; {} {:?}", <<seq4, seq5>>)

\* extended_escape after seq5 = self.next_char()?
extended_escape_seq5(s, r, q) ==
    CASE r = -1 -> Ret(s, NoData, q)
      [] s.seq2 = Ord("1") -> Ret(s, modified_key(s.seq4, r), q)
      [] OTHER -> Ret(s, Err("unsupported esc sequence: ESC [ {} ; {} {:?}",
                             <<s.seq2, s.seq4, r>>), q)

\* One step of the decoder: it is at s.at, its next_char call gave r (a
\* character, or -1 for Err) and left the queue q.
decode(s, r, q, checks) ==
    CASE s.at = "next_key_timeout" -> next_key_timeout(s, r, q)
      [] s.at = "escape_sequence" -> escape_sequence(s, r, q, checks)
      [] s.at = "parse_alt" -> parse_alt_esc(s, r, q, checks)
      [] s.at = "escape_csi" -> escape_csi_seq2(s, r, q)
      [] s.at = "escape_csi_linux" -> escape_csi_linux(s, r, q)
      [] s.at \in {"escape_csi_x10_cb", "escape_csi_x10_cx", "escape_csi_x10_cy"} ->
            escape_csi_x10(s, r, q)
      [] s.at = "escape_csi_sgr" -> escape_csi_sgr(s, r, q)
      [] s.at = "extended_escape" -> extended_escape(s, r, q)
      [] s.at = "extended_escape_num" -> extended_escape_num(s, r, q)
      [] s.at = "extended_escape_seq4" -> extended_escape_seq4(s, r, q)
      [] s.at = "extended_escape_seq5" -> extended_escape_seq5(s, r, q)
      [] s.at = "escape_o" -> escape_o(s, r, q)

\* the Duration the decoder passes to next_char_timeout at s.at:
\* next_key_timeout passes its argument, escape_sequence and parse_alt pass
\* KEY_WAIT, every other place calls next_char(), that is Duration::new(0, 0)
wait_arg(s, d) ==
    CASE s.at = "next_key_timeout" -> d
      [] s.at \in {"escape_sequence", "parse_alt"} -> KEY_WAIT
      [] OTHER -> 0

---------------------------------------------------------------------------
(* What the terminal sends.  One unit is one key's byte sequence, written to
   the input device in one piece. *)
Esc(ss) == <<ESC>> \o Str(ss)

\* the decimal digits of n, as the terminal writes a number
RECURSIVE to_decimal(_)
to_decimal(n) == IF n < 10 THEN <<48 + n>> ELSE to_decimal(n \div 10) \o <<48 + (n % 10)>>

\* the terminal's cursor position report for the 0-based position (row, col)
CprReply(row, col) ==
    Esc(<<"[">>) \o to_decimal(row + 1) \o Str(<<";">>) \o to_decimal(col + 1) \o Str(<<"R">>)

\* an xterm SGR mouse report ESC [ < b ; x ; y M|m
SgrReport(b, x, y, c) ==
    Esc(<<"[", "<">>) \o to_decimal(b) \o Str(<<";">>) \o to_decimal(x)
        \o Str(<<";">>) \o to_decimal(y) \o Str(<<c>>)

CprSamples == {0, 9, 65534, 65535}
SgrButtons == {0, 1, 2}
SgrCoords == {1, 3, 5}

\* well-formed keys
KeyUnits ==
    { Str(<<"a">>), Str(<<";">>), Str(<<"R">>), <<1>>,
      Esc(<<"[", "A">>), Esc(<<"O", "P">>), Esc(<<"[", "1", ";", "5", "C">>),
      SgrReport(0, 5, 3, "M"), CprReply(1, 2) }

\* sequences the decoder does not recognize
BadUnits ==
    { Esc(<<"[", "9">>), Esc(<<"[", "9", "9", "~">>), Esc(<<"[", "0", "x">>),
      <<ESC, ESC>> \o Str(<<"[", "9">>), <<ESC, ESC>> \o Str(<<"x">>),
      <<ESC, ESC>> \o Str(<<"[", "H">>),
      Esc(<<"O", "x">>), Esc(<<"[", "x">>), Esc(<<"[", "[", "x">>),
      Esc(<<"[", "1", "x">>), Esc(<<"[", "1", ";", "x">>),
      Esc(<<"[", "1", ";", "5", "x">>), Esc(<<"[", "2", ";", "5", "A">>),
      Esc(<<"[", "1", "6", "~">>), Esc(<<"[", "7", "7", ";", "1", ";", "1", "M">>),
      Esc(<<"[", "<", "9", ";", "5", ";", "3", "M">>),
      Esc(<<"[", "<", "0", ";", "5", ";", "3">>) }

CprUnits == { CprReply(row, col) : row \in CprSamples, col \in CprSamples }

SgrUnits == { SgrReport(b, x, y, "M") : b \in SgrButtons, x \in SgrCoords, y \in SgrCoords }

\* every single character up to DEL but ESC, and two characters beyond ASCII
CharUnits == { <<c>> : c \in (0..127) \ {ESC} } \cup { <<195, 169>>, <<226, 130, 172>> }

\* ESC ESC followed by a CSI sequence or by another character
DoubleEscUnits ==
    { <<ESC, ESC>> \o Str(<<"[", x>>) : x \in {"A", "B", "C", "D", "H", "F", "Z"} }
    \cup { <<ESC, ESC>> \o Str(<<"[", x, "~">>) : x \in {"3", "5", "6"} }
    \cup { <<ESC, ESC>> \o Str(<<"[", "1", ";", "5", "A">>),
           <<ESC, ESC>> \o Str(<<"[", "2", ";", "3", "R">>),
           <<ESC, ESC>> \o Str(<<"x">>), <<ESC, ESC>> \o Str(<<"O">>),
           <<ESC, ESC, ESC>>, <<ESC, ESC, 9>> }

\* ESC followed by one character other than '[', 'O' and ESC
AltCharUnits == { <<ESC, c>> : c \in (0..127) \ {ESC, Ord("["), Ord("O")} }

AltUnits == DoubleEscUnits \cup AltCharUnits

\* an X10 mouse report ESC [ M b x y, its three parameters raw bytes
X10Report(b, x, y) == Esc(<<"[", "M">>) \o <<b, x, y>>

X10Buttons == {0, 1, 2, 3, 64, 65}
X10Cols == {31, 32, 33, 59, 127, 128, 195}
X10Rows == {32, 82, 169}

X10Units == { X10Report(b, x, y) : b \in X10Buttons, x \in X10Cols, y \in X10Rows }

\* mouse reports, function keys and cursor reports with malformed numeric
\* fields, and a well-formed one of each kind
MalformedUnits ==
    { Esc(<<"[", "<", "0", ";", "5", ";", "3", "M">>),
      Esc(<<"[", "<", "0", ";", "5", "M">>),
      Esc(<<"[", "<", "a", ";", "5", ";", "3", "M">>),
      Esc(<<"[", "<", "7", "0", "0", "0", "0", ";", "5", ";", "3", "M">>),
      Esc(<<"[", "3", "2", ";", "5", ";", "3", "M">>),
      Esc(<<"[", "3", "2", ";", "5", "M">>),
      Esc(<<"[", "3", "2", ";", "x", ";", "3", "M">>),
      Esc(<<"[", "3", "2", ";", "7", "0", "0", "0", "0", ";", "3", "M">>),
      Esc(<<"[", "1", "1", "~">>),
      Esc(<<"[", "9", "9", "9", "~">>),
      Esc(<<"[", "0", ";", "5", "R">>),
      Esc(<<"[", "5", ";", "0", "R">>),
      Esc(<<"[", "R", ";">>) }

Scenarios == {"keys", "bad", "cpr", "sgr", "chars", "wait", "alt", "malformed", "x10",
              "texts", "flush", "title", "eof"}

\* the units the terminal may send as its n-th sequence: the first ranges
\* over the whole family, the later ones over a few of its members
Units(s, n) ==
    CASE s = "keys" -> KeyUnits
      [] s = "bad" -> IF n = 1 THEN BadUnits ELSE {Str(<<"a">>), Esc(<<"[", "9">>)}
      [] s = "cpr" -> IF n = 1 THEN CprUnits ELSE {Str(<<"a">>), CprReply(0, 0)}
      [] s = "sgr" -> IF n = 1 THEN SgrUnits ELSE {Str(<<"a">>), Str(<<"R">>)}
      [] s = "chars" -> IF n = 1 THEN CharUnits ELSE {Str(<<"a">>), <<1>>}
      [] s = "wait" -> {Str(<<"a">>), <<ESC>>}
      [] s = "malformed" -> IF n = 1 THEN MalformedUnits
                            ELSE {Str(<<"a">>), Esc(<<"[", "R", ";">>)}
      [] s = "x10" -> IF n = 1 THEN X10Units ELSE {Str(<<"a">>), X10Report(0, 33, 33)}
      [] s = "eof" -> {Str(<<"a">>), <<ESC>>}
      [] s = "alt" -> IF n = 1 THEN AltUnits
                      ELSE {Str(<<"a">>), <<ESC, ESC>> \o Str(<<"[", "B">>)}

\* the Durations a caller passes to next_key_timeout
Durations == {0, 50}

---------------------------------------------------------------------------
(* KeyBoard: the state after KeyBoard::new (input.rs:43-65) *)
InitKeyBoard(scns) ==
    /\ scn \in scns
    /\ buf = <<>>
    /\ file = <<>>
    /\ sig = 0
    /\ pc = "idle"
    /\ st = St0
    /\ timeout = 0
    /\ api = "none"
    /\ res = NoRes
    /\ overflow_checks \in (IF scn \in {"cpr", "malformed"} THEN BOOLEAN ELSE {TRUE})
    /\ eaten = <<>>
    /\ popped = 0
    /\ ends = {0}
    /\ sent = <<>>
    /\ returned = <<>>
    /\ wake = "none"
    /\ ncalls = 0
    /\ nintr = 0
    /\ fresh = 0
    /\ intrInCall = FALSE
    /\ eof = FALSE
    /\ spun = 0

\* next_key passing a short Duration instead
next_key_duration_short == KEY_WAIT

\* next_key (input.rs:117-119) passes this Duration to next_key_timeout
next_key_duration == 0

\* wait_until_ready(fd, signal_fd, timeout) waits without a time limit when
\* timeout is Duration::new(0, 0)
waits_forever(d) == d = 0

\* the bytes one interrupt() writes to the pipe: b"x\n"
MARKER_LEN == 2

history == <<scn, ends, sent, overflow_checks>>

\* the end-of-file condition of the input device and what it caused
eofvars == <<eof, spun>>

\* a next_key* call starts: next_key_timeout's first line calls
\* next_char_timeout(timeout)
Call(a, d) ==
    /\ pc = "idle"
    /\ ncalls < MaxCalls
    /\ pc' = "char"
    /\ st' = St0
    /\ timeout' = d
    /\ api' = a
    /\ res' = NoRes
    /\ eaten' = <<>>
    /\ wake' = "none"
    /\ ncalls' = ncalls + 1
    /\ intrInCall' = FALSE
    /\ UNCHANGED <<buf, file, sig, popped, returned, nintr, history, fresh, eofvars, outvars>>

NextKey == Call("next_key", next_key_duration)

NextKeyTimeout == \E d \in Durations : Call("next_key_timeout", d)

\* The decoder receives r from next_char_timeout, which left the queue q, and
\* runs up to its next next_char call or to its return.
Advance(r, q) ==
    LET d == decode(st, r, q, overflow_checks)
        n == Len(q) - Len(d.q)
    IN  /\ buf' = d.q
        /\ eaten' = eaten \o (IF r = -1 THEN <<>> ELSE <<r>>) \o SubSeq(q, 1, n)
        /\ popped' = popped + (IF r = -1 THEN 0 ELSE 1) + n
        /\ IF d.done
           THEN /\ pc' = IF d.res.tag = "Panic" THEN "panicked" ELSE "idle"
                /\ res' = d.res
                /\ st' = St0
                /\ intrInCall' = FALSE
                /\ returned' = IF d.res = NoData THEN returned ELSE Append(returned, d.res)
           ELSE /\ pc' = "char"
                /\ st' = d.st
                /\ UNCHANGED <<res, returned, intrInCall>>

\* next_char_timeout with a character pending (input.rs:108, 111-113)
NextCharPending ==
    /\ pc = "char"
    /\ buf # <<>>
    /\ Advance(Head(buf), Tail(buf))
    /\ UNCHANGED <<file, sig, timeout, api, wake, ncalls, nintr, history, fresh, eofvars, outvars>>

\* get_chars entering the wait without clearing the interrupt signal
GetCharsClear_keep ==
    /\ pc = "char"
    /\ buf = <<>>
    /\ sig' = sig
    /\ pc' = "wait"
    /\ fresh' = 0
    /\ UNCHANGED intrInCall
    /\ UNCHANGED <<buf, file, st, timeout, api, res, eaten, popped, returned, wake,
                   ncalls, nintr, history, eofvars, outvars>>

\* next_char_timeout with the queue empty enters get_chars, which first
\* clears the interrupt signal (input.rs:108-109, 83)
GetCharsClear ==
    /\ pc = "char"
    /\ buf = <<>>
    /\ sig' = 0
    /\ pc' = "wait"
    /\ fresh' = 0
    /\ UNCHANGED intrInCall
    /\ UNCHANGED <<buf, file, st, timeout, api, res, eaten, popped, returned, wake,
                   ncalls, nintr, history, eofvars, outvars>>

\* wait_until_ready returns (input.rs:85-89): the input device is readable
WaitReady ==
    /\ pc = "wait"
    /\ (file # <<>> \/ eof)
    /\ wake' = "data"
    /\ pc' = "read"
    /\ fresh' = 0
    /\ UNCHANGED intrInCall
    /\ UNCHANGED <<buf, file, sig, st, timeout, api, res, eaten, popped, returned,
                   ncalls, nintr, history, eofvars, outvars>>

\* wait_until_ready returns: only the interrupt pipe is readable
WaitInterrupted ==
    /\ pc = "wait"
    /\ file = <<>>
    /\ ~eof
    /\ sig > 0
    /\ wake' = "interrupt"
    /\ pc' = "read"
    /\ fresh' = 0
    /\ UNCHANGED intrInCall
    /\ UNCHANGED <<buf, file, sig, st, timeout, api, res, eaten, popped, returned,
                   ncalls, nintr, history, eofvars, outvars>>

\* wait_until_ready returns: nothing became readable within the timeout
WaitTimeout ==
    /\ pc = "wait"
    /\ file = <<>>
    /\ ~eof
    /\ sig = 0
    /\ ~waits_forever(wait_arg(st, timeout))
    /\ wake' = "timeout"
    /\ pc' = "read"
    /\ fresh' = 0
    /\ UNCHANGED intrInCall
    /\ UNCHANGED <<buf, file, sig, st, timeout, api, res, eaten, popped, returned,
                   ncalls, nintr, history, eofvars, outvars>>

\* get_chars reads the device until it would block, decodes the bytes and
\* queues the characters (input.rs:91-100); next_char_timeout then pops one,
\* or fails on an empty queue (input.rs:111-113)
GetCharsRead ==
    /\ pc = "read"
    /\ ~eof
    /\ file' = <<>>
    /\ LET chars == from_utf8(file)
           q == buf \o chars
       IN  IF chars = <<-1>>
           THEN /\ pc' = "panicked"
                /\ res' = Panic("Non UTF8 in input")
                /\ intrInCall' = FALSE
                /\ UNCHANGED <<buf, st, eaten, popped, returned>>
           ELSE IF q = <<>> THEN Advance(-1, <<>>) ELSE Advance(Head(q), Tail(q))
    /\ UNCHANGED <<sig, timeout, api, wake, ncalls, nintr, history, fresh, eofvars, outvars>>

\* get_chars' read loop at end-of-file (input.rs:91-94): read returns Ok(0),
\* which the loop takes like any Ok, so it pushes reader_buf[0] again and
\* reads again; the bytes that were there to read have been read before
GetCharsReadEof ==
    /\ pc = "read"
    /\ eof
    /\ spun < MaxSpin
    /\ file' = <<>>
    /\ spun' = spun + 1
    /\ UNCHANGED <<buf, sig, pc, st, timeout, api, res, eaten, popped, returned, wake,
                   ncalls, nintr, history, fresh, intrInCall, eof, outvars>>

\* the input device reaches end-of-file: the terminal hung up, or the input
\* is a file or a pipe that has ended
Hangup ==
    /\ ~eof
    /\ eof' = TRUE
    /\ UNCHANGED <<buf, file, sig, pc, st, timeout, api, res, eaten, popped, returned,
                   wake, ncalls, nintr, history, fresh, intrInCall, spun, outvars>>

\* the terminal writes one unit to the input device
Arrive ==
    /\ Len(sent) < MaxArrive
    /\ ~eof
    /\ \E u \in Units(scn, Len(sent) + 1) :
          /\ file' = file \o u
          /\ sent' = Append(sent, u)
          /\ ends' = ends \cup {Len(from_utf8(file \o u)) + popped + Len(buf)}
    /\ UNCHANGED <<buf, sig, pc, st, timeout, api, res, overflow_checks, scn, eaten,
                   popped, returned, wake, ncalls, nintr, fresh, intrInCall, eofvars, outvars>>

\* KeyboardHandler::interrupt, from another thread (input.rs:479-482)
Interrupt ==
    /\ nintr < MaxIntr
    /\ sig' = sig + MARKER_LEN
    /\ nintr' = nintr + 1
    /\ fresh' = IF pc = "wait" THEN fresh + 1 ELSE fresh
    /\ intrInCall' = (intrInCall \/ pc \in {"char", "wait", "read"})
    /\ UNCHANGED <<buf, file, pc, st, timeout, api, res, eaten, popped, returned, wake,
                   ncalls, history, eofvars, outvars>>

NextKeyBoard ==
    \/ NextKey
    \/ NextKeyTimeout
    \/ NextCharPending
    \/ GetCharsClear
    \/ WaitReady
    \/ WaitInterrupted
    \/ WaitTimeout
    \/ GetCharsRead
    \/ Arrive
    \/ Interrupt

\* the same with an input device that may reach end-of-file
NextEof ==
    \/ NextKey
    \/ NextKeyTimeout
    \/ NextCharPending
    \/ GetCharsClear
    \/ WaitReady
    \/ WaitInterrupted
    \/ WaitTimeout
    \/ GetCharsRead
    \/ GetCharsReadEof
    \/ Arrive
    \/ Hangup
    \/ Interrupt

\* the steps of the thread that called next_key*
Reader ==
    \/ NextCharPending
    \/ GetCharsClear
    \/ WaitReady
    \/ WaitInterrupted
    \/ WaitTimeout
    \/ GetCharsRead

---------------------------------------------------------------------------
(* Output (src/src/output.rs) *)

\* str::replace(from, to): every non-overlapping match, left to right
RECURSIVE replace(_, _, _)
replace(s, from, to) ==
    IF Len(s) < Len(from) THEN s
    ELSE IF SubSeq(s, 1, Len(from)) = from
         THEN to \o replace(SubSeq(s, Len(from) + 1, Len(s)), from, to)
         ELSE <<s[1]>> \o replace(Tail(s), from, to)

\* the bytes write(data) appends: data.replace("0x1b", "?").as_bytes()
write(data) == replace(data, Str(<<"0", "x", "1", "b">>), Str(<<"?">>))

\* the bytes write_raw(data) appends
write_raw(data) == data

\* texts an application passes to write
WriteTexts ==
    { Str(<<"a">>), <<ESC>>, Str(<<"0", "x", "1", "b">>), Esc(<<"0", "x", "1", "b">>) }

\* byte strings passed to write_raw
RawTexts == { Esc(<<"[">>), <<BEL>> }

\* what a run passes to write and write_raw: a run about texts draws from
\* the sets above, any other run passes one short text
Texts(s) == IF s = "texts" THEN WriteTexts ELSE {Str(<<"a">>)}
Raws(s) == IF s = "texts" THEN RawTexts ELSE {<<BEL>>}

Tags(n, tag) == [i \in 1..n |-> tag]

\* the capabilities the model's terminals may have, and their strings
Caps == {"el", "bel", "u7"}

CapStrings ==
    [cap \in Caps |->
        CASE cap = "el" -> Esc(<<"[", "K">>)
          [] cap = "bel" -> <<BEL>>
          [] cap = "u7" -> Esc(<<"[", "6", "n">>)]

\* a terminal with every capability, one with el only, one with none
TermInfos == {Caps, {"el"}, {}}

\* kinds of output device: one whose write takes all it is given, one whose
\* write may take fewer bytes, one whose write or flush may fail
Devices == {"all", "short", "failing"}

\* the name lists of terminal types: two that are known not to show titles,
\* one that lists such a name among its aliases, and two others
TermNames ==
    { {"linux"}, {"eterm-color"}, {"xterm"}, {"linux-16color"}, {"rxvt", "eterm-color"} }

\* title texts an application passes to set_title
Titles ==
    { <<>>, Str(<<"a">>), <<ESC>>, <<BEL>>, <<ESC, BEL>>,
      Str(<<"a">>) \o <<ESC, BEL>> \o Str(<<"b">>) }

\* set_title that strips the ESC characters only
set_title_keep_bel(title, ns) ==
    IF "linux" \in ns \/ "eterm-color" \in ns
    THEN <<>>
    ELSE write_raw(Esc(<<"]", "2", ";">>) \o replace(title, <<ESC>>, <<>>) \o <<BEL>>)

\* the bytes set_title(title) appends on a terminal named ns
\* (output.rs:84-93)
set_title(title, ns) ==
    IF "linux" \in ns \/ "eterm-color" \in ns
    THEN <<>>
    ELSE write_raw(Esc(<<"]", "2", ";">>)
                   \o replace(replace(title, <<ESC>>, <<>>), <<BEL>>, <<>>)
                   \o <<BEL>>)

\* write_cap that does not look whether the terminal has the capability
write_cap_always(cap, ti) == CapStrings[cap]

\* the bytes write_cap(cap) appends on a terminal with capabilities ti
\* (output.rs:57-63): the capability's string, or nothing when it is missing
write_cap(cap, ti) == IF cap \in ti THEN CapStrings[cap] ELSE <<>>

\* Output::new (output.rs:45-51), on one of the terminals tis and devices devs
InitOutputWith(tis, devs) ==
    /\ buffer = <<>>
    /\ origin = <<>>
    /\ stdout = <<>>
    /\ stdoutOrigin = <<>>
    /\ terminfo \in tis
    /\ device \in devs
    /\ names \in (IF scn = "title" THEN TermNames ELSE {{"xterm"}})
    /\ lastTitle = <<>>
    /\ flushes = 0
    /\ offered = <<>>
    /\ devFailed = FALSE
    /\ flushRes = "none"
    /\ op = "none"

InitOutput == InitOutputWith({Caps}, {"all"})

outenv == <<terminfo, device, names, lastTitle>>
outflush == <<stdout, stdoutOrigin, flushes, offered, devFailed, flushRes>>

\* Output::write (output.rs:66-68)
Write ==
    \E data \in Texts(scn) :
        /\ Len(buffer) + Len(write(data)) <= MaxBuffer
        /\ buffer' = buffer \o write(data)
        /\ origin' = origin \o Tags(Len(write(data)), "write")
        /\ op' = "write"
        /\ UNCHANGED <<outflush, outenv, kbvars>>

\* write_raw that hands its bytes to the device at once
WriteRaw_through ==
    \E data \in Raws(scn) :
        /\ Len(offered) + Len(write_raw(data)) <= MaxStdout
        /\ stdout' = stdout \o write_raw(data)
        /\ stdoutOrigin' = stdoutOrigin \o Tags(Len(write_raw(data)), "write_raw")
        /\ offered' = offered \o write_raw(data)
        /\ op' = "write_raw"
        /\ UNCHANGED <<buffer, origin, flushes, devFailed, flushRes, outenv, kbvars>>

\* Output::write_raw (output.rs:71-73)
WriteRaw ==
    \E data \in Raws(scn) :
        /\ Len(buffer) + Len(write_raw(data)) <= MaxBuffer
        /\ buffer' = buffer \o write_raw(data)
        /\ origin' = origin \o Tags(Len(write_raw(data)), "write_raw")
        /\ op' = "write_raw"
        /\ UNCHANGED <<outflush, outenv, kbvars>>

\* a capability primitive, here Output::erase_end_of_line (output.rs:143-145)
EraseEndOfLine ==
    LET s == write_cap("el", terminfo)
    IN  /\ Len(buffer) + Len(s) <= MaxBuffer
        /\ buffer' = buffer \o s
        /\ origin' = origin \o Tags(Len(s), "cap")
        /\ op' = "erase_end_of_line"
        /\ UNCHANGED <<outflush, outenv, kbvars>>

\* flush that returns early when there is nothing to write
flush_skip_empty(bs, org) ==
    /\ Len(offered) + Len(bs) <= MaxStdout
    /\ flushes < MaxFlush
    /\ \E k \in 0..Len(bs), werr \in BOOLEAN, ferr \in BOOLEAN :
          /\ device = "all" => (k = Len(bs) /\ ~werr /\ ~ferr)
          /\ device = "short" => (~werr /\ ~ferr)
          /\ werr => k = 0
          /\ stdout' = stdout \o SubSeq(bs, 1, k)
          /\ stdoutOrigin' = stdoutOrigin \o SubSeq(org, 1, k)
          /\ devFailed' = (bs # <<>> /\ (werr \/ ferr))
    /\ offered' = offered \o bs
    /\ buffer' = <<>>
    /\ origin' = <<>>
    /\ flushes' = IF bs = <<>> THEN flushes ELSE flushes + 1
    /\ flushRes' = "unit"

\* Output::flush (output.rs:101-105) of the bytes bs with origins org: one
\* write call, of which the device takes the first k bytes or which fails;
\* the result is dropped, the buffer cleared, the device flushed and that
\* result dropped too
flush(bs, org) ==
    /\ Len(offered) + Len(bs) <= MaxStdout
    /\ flushes < MaxFlush
    /\ \E k \in 0..Len(bs), werr \in BOOLEAN, ferr \in BOOLEAN :
          /\ device = "all" => (k = Len(bs) /\ ~werr /\ ~ferr)
          /\ device = "short" => (~werr /\ ~ferr)
          /\ werr => k = 0
          /\ stdout' = stdout \o SubSeq(bs, 1, k)
          /\ stdoutOrigin' = stdoutOrigin \o SubSeq(org, 1, k)
          /\ devFailed' = (werr \/ ferr)
    /\ offered' = offered \o bs
    /\ buffer' = <<>>
    /\ origin' = <<>>
    /\ flushes' = flushes + 1
    /\ flushRes' = "unit"

Flush ==
    /\ flush(buffer, origin)
    /\ op' = "flush"
    /\ UNCHANGED <<outenv, kbvars>>

\* Output::bell (output.rs:283-286): write_cap("bel"), then flush
Bell ==
    LET s == write_cap("bel", terminfo)
    IN  /\ Len(buffer) + Len(s) <= MaxBuffer
        /\ flush(buffer \o s, origin \o Tags(Len(s), "cap"))
        /\ op' = "bell"
        /\ UNCHANGED <<outenv, kbvars>>

\* Output::ask_for_cpr (output.rs:277-280): write_cap("u7"), then flush
AskForCpr ==
    LET s == write_cap("u7", terminfo)
    IN  /\ Len(buffer) + Len(s) <= MaxBuffer
        /\ flush(buffer \o s, origin \o Tags(Len(s), "cap"))
        /\ op' = "ask_for_cpr"
        /\ UNCHANGED <<outenv, kbvars>>

\* Output::set_title (output.rs:84-93)
SetTitleWith(title, name) ==
    /\ Len(buffer) + Len(set_title(title, names)) <= MaxTitle
    /\ buffer' = buffer \o set_title(title, names)
    /\ origin' = origin \o Tags(Len(set_title(title, names)), name)
    /\ lastTitle' = title
    /\ op' = name
    /\ UNCHANGED <<outflush, terminfo, device, names, kbvars>>

SetTitle == \E title \in Titles : SetTitleWith(title, "set_title")

\* Output::clear_title (output.rs:96-98)
ClearTitle == SetTitleWith(<<>>, "clear_title")

NextOutput ==
    \/ Write
    \/ WriteRaw
    \/ EraseEndOfLine
    \/ Flush
    \/ Bell
    \/ AskForCpr

InitOut == InitKeyBoard({"texts"}) /\ InitOutputWith({{"el"}}, {"short"})
InitFlush == InitKeyBoard({"flush"}) /\ InitOutputWith(TermInfos, Devices)
InitTitle == InitKeyBoard({"title"}) /\ InitOutput
InitKeys == InitKeyBoard({"keys"}) /\ InitOutput
InitBad == InitKeyBoard({"bad"}) /\ InitOutput
InitCpr == InitKeyBoard({"cpr"}) /\ InitOutput
InitSgr == InitKeyBoard({"sgr"}) /\ InitOutput
InitChars == InitKeyBoard({"chars"}) /\ InitOutput
InitWait == InitKeyBoard({"wait"}) /\ InitOutput
InitAlt == InitKeyBoard({"alt"}) /\ InitOutput
InitEof == InitKeyBoard({"eof"}) /\ InitOutput
InitX10 == InitKeyBoard({"x10"}) /\ InitOutput
InitMalformed == InitKeyBoard({"malformed"}) /\ InitOutput

SpecOutput == InitOut /\ [][NextOutput]_vars
SpecFlush == InitFlush /\ [][NextOutput]_vars

NextTitle ==
    \/ SetTitle
    \/ ClearTitle
    \/ Write

SpecTitle == InitTitle /\ [][NextTitle]_vars
SpecKeys == InitKeys /\ [][NextKeyBoard]_vars
SpecBad == InitBad /\ [][NextKeyBoard]_vars
SpecCpr == InitCpr /\ [][NextKeyBoard]_vars
SpecSgr == InitSgr /\ [][NextKeyBoard]_vars
SpecChars == InitChars /\ [][NextKeyBoard]_vars
SpecWait == InitWait /\ [][NextKeyBoard]_vars
SpecAlt == InitAlt /\ [][NextKeyBoard]_vars
SpecEof == InitEof /\ [][NextEof]_vars
SpecX10 == InitX10 /\ [][NextKeyBoard]_vars
SpecMalformed == InitMalformed /\ [][NextKeyBoard]_vars

\* the reader thread runs whenever it is not blocked
SpecWaitFair == InitWait /\ [][NextKeyBoard]_vars /\ WF_vars(Reader)

---------------------------------------------------------------------------
(* Claims *)

\* C1: after any sequence of Output calls, no ESC byte that came from the
\* text argument of write(text) is in the buffer or was delivered to the
\* device.
C1_NoEscapeFromWrite ==
    /\ \A i \in 1..Len(buffer) : origin[i] = "write" => buffer[i] # ESC
    /\ \A i \in 1..Len(stdout) : stdoutOrigin[i] = "write" => stdout[i] # ESC

\* the decoder run on the characters q alone, every further next_char failing
RECURSIVE run_alone(_, _)
run_alone(s, q) ==
    LET d == IF q = <<>> THEN decode(s, -1, <<>>, TRUE)
             ELSE decode(s, Head(q), Tail(q), TRUE)
    IN  IF d.done THEN d ELSE run_alone(d.st, d.q)

\* the key a unit stands for: what the decoder returns for it on its own
KeyOf(u) == run_alone(St0, from_utf8(u)).res

\* C2: for a stream of well-formed key sequences delivered in bursts split at
\* sequence boundaries, the calls return exactly the corresponding keys in
\* arrival order: what was returned so far is a prefix of the keys sent, and
\* once every character sent is consumed it is all of them.
C2_KeysInArrivalOrder ==
    /\ Len(returned) <= Len(sent)
    /\ \A i \in 1..Len(returned) : i <= Len(sent) => returned[i] = KeyOf(sent[i])
    /\ (pc = "idle" /\ buf = <<>> /\ file = <<>>) => Len(returned) = Len(sent)

\* C3: between two external calls the queue never holds the tail of a
\* sequence whose head was already consumed: a call returns only when the
\* characters consumed so far end at the end of a sent sequence.
C3_NoHalfConsumedSequence == pc = "idle" => popped \in ends

\* the running call is next_key(), parked in the readiness wait of its first
\* next_char_timeout with nothing pending and nothing to read
BlockedInNextKey ==
    /\ api = "next_key"
    /\ pc = "wait"
    /\ st.at = "next_key_timeout"
    /\ buf = <<>>
    /\ file = <<>>

\* C4: if next_key() is blocked in the readiness wait with an empty queue and
\* another thread has called interrupt(), then, unless the device becomes
\* readable, the call eventually returns, and returns the no-data error.
C4_InterruptWakesNextKey ==
    (BlockedInNextKey /\ sig > 0)
        ~> ((pc = "idle" /\ api = "next_key" /\ res = NoData) \/ file # <<>>)

\* C4 happens: next_key() returned no-data after an interrupt, with the
\* device never having had a byte
C4_Witness ==
    /\ pc = "idle"
    /\ api = "next_key"
    /\ res = NoData
    /\ wake = "interrupt"
    /\ sent = <<>>
    /\ nintr > 0

\* C5: next_key_timeout(d) with d = 0, an empty queue and no device data does
\* not block: its readiness wait ends by itself, without data or an interrupt.
C5_ZeroTimeoutDoesNotBlock ==
    (/\ api = "next_key_timeout"
     /\ timeout = 0
     /\ pc = "wait"
     /\ st.at = "next_key_timeout"
     /\ buf = <<>>
     /\ file = <<>>
     /\ sig = 0) => ENABLED WaitTimeout

\* C6: next_key() with an empty queue and no device data returns only after
\* device data arrived or interrupt() was called: its first readiness wait
\* never ends by timeout, and when it returns without having consumed a
\* character it returns no-data after an interrupt.
C6_NextKeyBlocks ==
    /\ (api = "next_key" /\ pc = "read" /\ st.at = "next_key_timeout")
          => wake \in {"data", "interrupt"}
    /\ (api = "next_key" /\ pc = "idle" /\ eaten = <<>>)
          => (res = NoData /\ wake = "interrupt" /\ nintr > 0)
    /\ (api = "next_key" /\ pc = "idle" /\ res = NoData) => wake = "interrupt"

\* C6 happens: next_key() sits in its readiness wait with nothing queued,
\* nothing to read and no interrupt marker, after an earlier call of the run
\* returned without a key
C6_Witness ==
    /\ BlockedInNextKey
    /\ sig = 0
    /\ ncalls > 1
    /\ returned = <<>>
    /\ sent = <<>>

\* the characters of the terminal's reply for the 0-based position (row, col)
CprChars(row, col) == from_utf8(CprReply(row, col))

\* C7 as stated: for all row, col in the 16-bit range, a call that consumed
\* exactly the reply ESC [ row+1 ; col+1 R returns CursorPos(row, col).
C7_RoundTripAll ==
    \A row \in CprSamples, col \in CprSamples :
        eaten = CprChars(row, col) => (pc = "idle" /\ res = CursorPos(row, col))

\* C7 amended: the same for 0 <= row, col <= 65534, that is when row + 1 and
\* col + 1 are themselves 16-bit values.
C7_RoundTrip ==
    \A row \in CprSamples, col \in CprSamples :
        (row + 1 <= U16_MAX /\ col + 1 <= U16_MAX /\ eaten = CprChars(row, col))
            => (pc = "idle" /\ res = CursorPos(row, col))

\* C7 happens: the reply for the largest position was decoded
C7_Witness ==
    /\ pc = "idle"
    /\ eaten = CprChars(65534, 9)
    /\ res = CursorPos(65534, 9)

\* the button an SGR report's first field names
SgrButton(b) == CASE b = 0 -> "Left" [] b = 1 -> "Middle" [] b = 2 -> "Right"

\* C8: a call that consumed exactly the SGR report ESC [ < b ; x ; y M returns
\* a press of button b at the 0-based column x - 1 and row y - 1.
C8_SgrZeroBased ==
    \A b \in SgrButtons, x \in SgrCoords, y \in SgrCoords :
        (pc = "idle" /\ eaten = from_utf8(SgrReport(b, x, y, "M")))
            => res = MousePress(SgrButton(b), x - 1, y - 1)

\* the fixed table of the single-character keys, by code point
ExpectedPlain(c) ==
    IF c = 9 THEN Named("Tab")
    ELSE IF c = 13 THEN Named("Enter")
    ELSE IF c = 127 THEN Named("Backspace")
    ELSE IF c = 0 THEN Key("Ctrl", "", 32, 0)
    ELSE IF c >= 1 /\ c <= 26 THEN Key("Ctrl", "", 96 + c, 0)
    ELSE Key("Char", "", c, 0)

\* C9: a call whose first character is not ESC removes exactly that one
\* character from the queue and returns the key the fixed table gives it.
C9_SingleCharTable ==
    (pc = "idle" /\ eaten # <<>> /\ eaten[1] # ESC)
        => (Len(eaten) = 1 /\ res = ExpectedPlain(eaten[1]))

\* C9 happens: 0x09 was decoded as Tab while other characters stayed queued
C9_Witness ==
    /\ pc = "idle"
    /\ eaten = <<9>>
    /\ res = Named("Tab")
    /\ buf # <<>>

\* the characters of the sequence that an error message spells out: the ones
\* written in its format string and the ones formatted into it
Shown(r) ==
    Range(r.args) \cup
    (CASE r.kind = "unsupported esc sequence: ESC ESC [ ..." -> {Ord("[")}
       [] r.kind = "unsupported esc sequence: ESC ESC {:?}" -> {}
       [] r.kind = "unsupported esc sequence: ESC O {:?}" -> {Ord("O")}
       [] r.kind = "unknown esc sequence ESC [ < (not ending with m/M)" -> {Ord("["), Ord("<")}
       [] r.kind = "unknown sequence: ESC [ < {} {}" -> {Ord("["), Ord("<")}
       [] r.kind = "unsupported esc sequence: ESC [ {:?}" -> {Ord("[")}
       [] r.kind = "unsupported esc sequence: ESC [ [ {:?}" -> {Ord("[")}
       [] r.kind = "unsupported esc sequence: ESC [ {} M" -> {Ord("["), Ord("M")}
       [] r.kind = "unsupported esc sequence: ESC [ {} ~" -> {Ord("["), Ord("~")}
       [] r.kind = "unsupported esc sequence: ESC [ {} {:?}" -> {Ord("[")}
       [] r.kind = "unsupported esc sequence: ESC [ {} ; {:?}" -> {Ord("["), Ord(";")}
       [] r.kind = "unsupported esc sequence: ESC [ 1 ; {} {:?}" -> {Ord("["), Ord("1"), Ord(";")}
       [] r.kind = "unsupported esc sequence: ESC [ {} ; {} {:?}" -> {Ord("["), Ord(";")}
       [] OTHER -> {})

\* C10: a call that read an unrecognized escape sequence returns an error,
\* never a key, and the error's message shows the character at which the
\* sequence was given up.
C10_ErrorNamesCharacter ==
    (pc = "idle" /\ Len(eaten) >= 2 /\ eaten[1] = ESC /\ res # NoData)
        => (res.tag = "Err" /\ Last(eaten) \in Shown(res))

\* the two unsupported-sequence errors of the double-ESC branch
DoubleEscErrors ==
    {"unsupported esc sequence: ESC ESC [ ...", "unsupported esc sequence: ESC ESC {:?}"}

\* what ESC ESC u is to yield, u being a sequence of characters after the
\* two ESC: the Alt counterpart of the key ESC u decodes to, or an error
DoubleEscExpected(u) ==
    LET k == KeyOf(<<ESC>> \o u)
    IN  IF u[1] # Ord("[") THEN "error"
        ELSE CASE k = Named("Up") -> "AltUp"
               [] k = Named("Down") -> "AltDown"
               [] k = Named("Left") -> "AltLeft"
               [] k = Named("Right") -> "AltRight"
               [] k = Named("PageUp") -> "AltPageUp"
               [] k = Named("PageDown") -> "AltPageDown"
               [] OTHER -> "error"

\* C11: a call that consumed ESC ESC [ and a CSI sequence decoding to Up,
\* Down, Left, Right, PageUp or PageDown returns the Alt counterpart of that
\* key; a call that consumed ESC ESC and any other continuation returns an
\* unsupported-sequence error.
C11_DoubleEscRemap ==
    \A unit \in DoubleEscUnits :
        eaten = unit =>
            /\ pc = "idle"
            /\ LET want == DoubleEscExpected(Tail(Tail(unit)))
               IN  IF want = "error"
                   THEN res.tag = "Err" /\ res.kind \in DoubleEscErrors
                   ELSE res = Named(want)

\* C11 happens: ESC ESC [ 5 ~ was decoded as AltPageUp
C11_Witness ==
    /\ pc = "idle"
    /\ eaten = <<ESC, ESC>> \o Str(<<"[", "5", "~">>)
    /\ res = Named("AltPageUp")

\* the operations that flush: flush(), bell(), ask_for_cpr()
FlushOps == {"flush", "bell", "ask_for_cpr"}

IsPrefix(a, b) == Len(a) <= Len(b) /\ SubSeq(b, 1, Len(a)) = a

\* C12: the device receives bytes only in a step of flush(), bell() or
\* ask_for_cpr(); a step of any other Output operation leaves the device
\* output unchanged and only appends to the buffer.
C12_DeviceOnlyByFlush ==
    [][/\ stdout' # stdout => op' \in FlushOps
       /\ (op' \notin FlushOps /\ outvars' # outvars)
             => (/\ stdout' = stdout
                 /\ stdoutOrigin' = stdoutOrigin
                 /\ offered' = offered
                 /\ flushes' = flushes
                 /\ IsPrefix(buffer, buffer'))]_vars

\* C12 happens: a capability primitive and write or write_raw have filled
\* the buffer and the device has received nothing
C12_Witness ==
    /\ Len(buffer) = MaxBuffer
    /\ "cap" \in Range(origin)
    /\ Cardinality(Range(origin)) = 2
    /\ stdout = <<>>
    /\ offered = <<>>
    /\ flushes = 0

\* C13: on a device that does not fail, the bytes the device has received
\* are exactly the bytes appended before the last flush, in order, also
\* when the device takes fewer bytes than one write call offers; and a flush
\* leaves the buffer empty.
C13_FlushDeliversAll ==
    /\ device # "failing" => stdout = offered
    /\ op \in FlushOps => buffer = <<>>

\* C14: a flush() called with an empty buffer leaves the bytes the device
\* received as they are and flushes the device once; so a second flush()
\* in a row delivers nothing more.
C14_FlushEmpty ==
    [][(op' = "flush" /\ buffer = <<>> /\ outvars' # outvars)
          => (/\ stdout' = stdout
              /\ offered' = offered
              /\ buffer' = <<>>
              /\ flushes' = flushes + 1)]_vars

\* C14 happens: flush() was called twice, each time with an empty buffer:
\* the device was flushed twice and was offered no byte
C14_Witness ==
    /\ op = "flush"
    /\ flushes = 2
    /\ offered = <<>>
    /\ stdout = <<>>
    /\ buffer = <<>>

\* the capability each modelled primitive writes
CapOf == [o \in {"erase_end_of_line", "bell", "ask_for_cpr"} |->
            CASE o = "erase_end_of_line" -> "el"
              [] o = "bell" -> "bel"
              [] o = "ask_for_cpr" -> "u7"]

\* C15: a capability primitive called on a terminal that lacks the
\* capability appends nothing and fails nothing: erase_end_of_line changes
\* neither buffer nor device; bell and ask_for_cpr still flush, and offer
\* the device exactly the bytes that were buffered before the call.
C15_MissingCapIsNoOp ==
    [][\A o \in DOMAIN CapOf :
          (op' = o /\ CapOf[o] \notin terminfo /\ outvars' # outvars)
             => IF o \in FlushOps
                THEN /\ offered' = offered \o buffer
                     /\ buffer' = <<>>
                     /\ flushes' = flushes + 1
                     /\ flushRes' = "unit"
                ELSE UNCHANGED <<buffer, origin, outflush>>]_vars

\* C15 happens: on a terminal without bel, bell() after write("a") flushed
\* the one buffered byte and nothing else
C15_Witness ==
    /\ op = "bell"
    /\ "bel" \notin terminfo
    /\ flushes = 1
    /\ offered = Str(<<"a">>)
    /\ buffer = <<>>

\* C16: a failure of the output device's write or flush during flush() is
\* reported to the caller: when the device failed in the last flush, the
\* value that flush returned is an error.
C16_DeviceFailureReported == devFailed => flushRes = "error"

\* C17: the markers in the interrupt channel when a refill cycle begins are
\* discarded before the cycle's wait: the wait begins with the channel empty,
\* and a wait is ended by an interrupt only when interrupt() was called
\* during that very wait, so that an interrupt() made while no wait is in
\* progress ends no wait and one interrupt() ends no more than one wait.
C17_StaleMarkersDiscarded ==
    [][/\ (pc = "char" /\ pc' = "wait") => sig' = 0
       /\ (pc = "wait" /\ wake' = "interrupt" /\ pc' = "read") => fresh >= 1]_vars

\* an interrupt() made between two calls, its marker discarded by the drain
\* of a later call whose wait then ran out of time
C17_Witness ==
    /\ nintr = 1
    /\ sig = 0
    /\ pc = "idle"
    /\ wake = "timeout"
    /\ res = NoData

\* C18: when the short wait after an ESC has ended without a character (the
\* decoder has consumed ESC alone and no interrupt was made), the call
\* returns the bare Escape key and has consumed nothing but the ESC: a
\* character that arrives after that timeout is not folded into the ESC.
C18_BareEscapeAfterTimeout ==
    [][(st.at = "parse_alt" /\ eaten = <<ESC>> /\ nintr = 0 /\ pc' = "idle")
          => (res' = Named("ESC") /\ eaten' = <<ESC>>)]_vars

\* the Alt-wrapped variant of a key of the unmodified table
AltWrap(k) ==
    CASE k.kind = "Ctrl" -> [k EXCEPT !.kind = "CtrlAlt"]
      [] k.kind = "Char" -> [k EXCEPT !.kind = "Alt"]
      [] k.kind \in {"Tab", "Enter", "Backspace"} -> Named("Alt" \o k.kind)

\* a call has returned after consuming exactly ESC c, c not '[', 'O' or ESC
AltPair ==
    /\ pc = "idle"
    /\ Len(eaten) = 2
    /\ eaten[1] = ESC
    /\ eaten[2] \notin {ESC, Ord("["), Ord("O")}

\* C19 as stated: for every character c other than '[', 'O' and ESC, ESC c
\* decodes to the Alt-wrapped variant of the key c decodes to unmodified.
C19_AltWrapAll == AltPair => res = AltWrap(plain_key(eaten[2]))

\* C19, amended: the same for every such c other than 0x19; ESC 0x19
\* decodes to AltBackTab.
C19_AltWrap ==
    AltPair => res = IF eaten[2] = 25 THEN Named("AltBackTab")
                     ELSE AltWrap(plain_key(eaten[2]))

\* C19 happens: ESC DEL was decoded as AltBackspace
C19_Witness ==
    /\ AltPair
    /\ eaten[2] = DEL
    /\ res = Named("AltBackspace")

\* C20: when the cursor-position attempt of escape_csi has not yielded a
\* CursorPos key and the normal dispatch is about to read its character, the
\* attempt has consumed nothing: the call has consumed only ESC [ (or
\* ESC ESC [) so far.
C20_CprAttemptLeavesQueue ==
    (pc = "char" /\ st.at = "escape_csi")
        => eaten \in {<<ESC, Ord("[")>>, <<ESC, ESC, Ord("[")>>}

\* C21: whatever characters follow an ESC, the call returns a Key or an
\* error value: no call that began with ESC ends in a panic.
C21_NeverPanics == ~(pc = "panicked" /\ eaten # <<>> /\ eaten[1] = ESC)

\* a next_key() call is in the readiness wait, which has no time limit, with
\* nothing to end it: nothing to read on the device, no marker in the
\* interrupt channel
WaitsUnwoken ==
    /\ api = "next_key"
    /\ pc = "wait"
    /\ waits_forever(wait_arg(st, timeout))
    /\ file = <<>>
    /\ sig = 0

\* C22: no lost wakeup. When interrupt() was called during a next_key() call
\* and the device has sent nothing, the call is never left in a wait that
\* only a further interrupt() or device input could end; this holds also for
\* a marker written before the call's drain step.
C22_NoLostWakeup == ~(WaitsUnwoken /\ intrInCall /\ sent = <<>>)

\* the mouse event of the X10 report with the raw bytes b, x, y: the column
\* and row are x - 32 and y - 32, not below 0, the button is chosen by the
\* low two bits of b, and bit 0x40 turns Left and Middle into the wheel
X10Expected(b, x, y) ==
    LET col   == IF x >= 32 THEN x - 32 ELSE 0
        row   == IF y >= 32 THEN y - 32 ELSE 0
        wheel == (b \div 64) % 2 = 1
    IN  CASE b % 4 = 0 -> MousePress(IF wheel THEN "WheelUp" ELSE "Left", col, row)
          [] b % 4 = 1 -> MousePress(IF wheel THEN "WheelDown" ELSE "Middle", col, row)
          [] b % 4 = 2 -> MousePress("Right", col, row)
          [] b % 4 = 3 -> MouseRelease(col, row)

\* C23: when the first sequence the terminal sent is the X10 report
\* ESC [ M b x y, no call panics on it and the first value returned is the
\* mouse event of b, x, y; this for coordinate bytes of 128 and above too.
C23_X10RawBytes ==
    \A b \in X10Buttons, x \in X10Cols, y \in X10Rows :
        (sent # <<>> /\ sent[1] = X10Report(b, x, y)) =>
            /\ pc # "panicked"
            /\ returned # <<>> => returned[1] = X10Expected(b, x, y)

\* the same for the reports whose coordinate bytes are below 128 and are not
\* the characters ';' and 'R'
X10PlainBytes ==
    \A b \in X10Buttons, x \in X10Cols \ {59}, y \in X10Rows \ {82} :
        (x < 128 /\ y < 128 /\ sent # <<>> /\ sent[1] = X10Report(b, x, y)) =>
            /\ pc # "panicked"
            /\ returned # <<>> => returned[1] = X10Expected(b, x, y)

\* t with every ESC and BEL removed
StripEscBel(t) == SelectSeq(t, LAMBDA c : c \notin {ESC, BEL})

Count(t, c) == Cardinality({i \in 1..Len(t) : t[i] = c})

\* what a set_title(t) step is to append on the terminal it runs on
TitleExpected(t) ==
    IF names \cap {"linux", "eterm-color"} # {}
    THEN <<>>
    ELSE <<ESC>> \o Str(<<"]", "2", ";">>) \o StripEscBel(t) \o <<BEL>>

\* C24: a step of set_title(t) appends nothing on a terminal named linux or
\* eterm-color and on any other terminal exactly ESC ] 2 ; t' BEL, t' being t
\* without its ESC and BEL bytes, a sequence with one ESC, its first byte,
\* and one BEL, its last; a step of clear_title() does what set_title("")
\* does.
C24_SetTitle ==
    [][(op' \in {"set_title", "clear_title"} /\ outvars' # outvars) =>
          LET t == IF op' = "clear_title" THEN <<>> ELSE lastTitle'
              added == SubSeq(buffer', Len(buffer) + 1, Len(buffer'))
          IN  /\ buffer' = buffer \o TitleExpected(t)
              /\ added # <<>> => /\ Count(added, ESC) = 1 /\ added[1] = ESC
                                 /\ Count(added, BEL) = 1 /\ added[Len(added)] = BEL
              /\ UNCHANGED outflush]_vars

\* C24 happens: set_title was given a text with an ESC and a BEL in it, after
\* a write, and appended the title sequence without them
C24_Witness ==
    /\ op = "set_title"
    /\ lastTitle = Str(<<"a">>) \o <<ESC, BEL>> \o Str(<<"b">>)
    /\ buffer = Str(<<"a">>) \o <<ESC>> \o Str(<<"]", "2", ";", "a", "b">>) \o <<BEL>>

\* C25: once the readiness wait has ended the refill cycle terminates, for
\* every behaviour of the input device, end-of-file included: whenever the
\* cycle is in its read loop the loop can come to its end, and the cycle has
\* pushed no byte that no read delivered.
C25_RefillTerminates ==
    /\ spun = 0
    /\ pc = "read" => ENABLED GetCharsRead

============================================================================
